---------------------------- MODULE Spec2Model ----------------------------
(***************************************************************************)
(* A model of safety.h (namespace safety): the device predicates, the      *)
(* group validators, the device-type naming, the unplugged-device report   *)
(* and the supervisor task task_check_devices.                             *)
(*                                                                         *)
(* The host (PROS) is the environment: host[p] is what                     *)
(* pros::v5::Device::get_plugged_type(p) answers, and it may change at any *)
(* moment between two steps of the supervisor.  One call of a predicate is *)
(* one step: the two reads isPluggedIn makes of the same port see the same *)
(* host answer.                                                            *)
(***************************************************************************)
EXTENDS Integers, Sequences, FiniteSets, TLC

\* ------------------------------------------------------------------ bounds
MaxPort == 3
MaxLen == 3
LiveMaxPort == 2
LiveMaxLen == 2
FnMaxPort == 3
FnMaxLen == 3

Ports == 1..MaxPort
LivePorts == 1..LiveMaxPort
FnPorts == 1..FnMaxPort

\* ------------------------------------------- pros::v5::DeviceType (enum)
none == 0
motor == 2
rotation == 4
imu == 6
distance == 7
radio == 8
vision == 11
adi == 12
optical == 16
gps == 20
serial == 129
undefined == 255

DeviceType == {none, undefined, motor, rotation, imu, radio, distance,
               vision, adi, optical, gps, serial}

\* every value the enum's underlying byte can carry, in or out of the enumeration
AnyType == 0..255

\* the kinds the environment plugs into a port while the supervisor runs
SupKinds == {none, undefined, motor}

\* the kinds a port holds when the one-shot functions are called
FnKinds == {none, undefined, motor, rotation}

\* pros::delay(500)
poll_interval == 500

VARIABLES
    host,       \* port -> the type the host reports for it
    devices,    \* the supervisor's std::vector<Device> (its WatchSet)
    pc,         \* supervisor position: "scan", "delay", "done"; "off" = not started
    i,          \* position of the range-for over devices (1-based)
    rumbles,    \* patterns passed to master.rumble, in order
    prints,     \* <<row, col, text>> passed to master.print, in order
    ret,        \* <<>> while running, <<v>> once the task has returned v
    slept,      \* arguments of pros::delay since the current scan began
    scanLog,    \* history: the isPluggedIn queries of the current scan
    lost,       \* history: per watched port, for how long it has been absent
    call        \* the last one-shot call: its name, argument, result

vars == <<host, devices, pc, i, rumbles, prints, ret, slept, scanLog, lost, call>>

\* ---------------------------------------------------------------- helpers
\* pros::v5::Device(port) and Device::get_port()
Device(port) == [port |-> port]
get_port(device) == device.port

\* all sequences over S of length at most n
SeqsUpTo(S, n) == UNION {[1..k -> S] : k \in 0..n}

\* pros::v5::Device::get_plugged_type(port)
get_plugged_type(port) == host[port]

\* --------------------------------------------------------- type predicates
isPluggedIn_undefinedIsPresent(port) ==
    ~(get_plugged_type(port) = none)

isPluggedIn(port) ==
    ~(   (get_plugged_type(port) = none)
      \/ (get_plugged_type(port) = undefined))

isMotor(port) == get_plugged_type(port) = motor

\* ------------------------------------------------- controller (feedback)
rumble(pattern) == rumbles' = Append(rumbles, pattern)
print(row, col, text) == prints' = Append(prints, <<row, col, text>>)

\* ------------------------------------------------------ history bookkeeping
Absent(t) == t \in {none, undefined}

\* a scan begins: whatever is absent now has been absent since before it
AtScanStart(l) ==
    [p \in DOMAIN l |-> IF l[p] = "new" THEN "stale" ELSE l[p]]

\* --------------------------------------------------------- checkMotorGroup
\* pros::v5::MotorGroup and MotorGroup::get_port_all()
MotorGroup(ports) == [ports |-> ports]
get_port_all(group) == group.ports

\* `for (int port : group.get_port_all())`, from position k on, `ports` so far
RECURSIVE checkMotorGroup_for(_, _, _)
checkMotorGroup_for(all, k, ports) ==
    IF k > Len(all) THEN ports
    ELSE LET port == all[k]
             ports1 == IF ~isMotor(port) THEN Append(ports, port) ELSE ports
             ports2 == IF isPluggedIn(port) THEN Append(ports1, port) ELSE ports1
         IN checkMotorGroup_for(all, k + 1, ports2)

checkMotorGroup(group) == checkMotorGroup_for(get_port_all(group), 1, <<>>)

\* ------------------------------------------------------------ checkDevices
\* Faulty variant: the test is the one print_unplugged_devices makes, not negated.
RECURSIVE checkDevices_for_pluggedIn(_, _, _)
checkDevices_for_pluggedIn(devs, k, ports) ==
    IF k > Len(devs) THEN ports
    ELSE LET device == devs[k]
         IN checkDevices_for_pluggedIn(devs, k + 1,
                IF isPluggedIn(get_port(device))
                THEN Append(ports, get_port(device)) ELSE ports)

\* `for (Device device : devices)`, from position k on, `ports` so far
RECURSIVE checkDevices_for(_, _, _)
checkDevices_for(devs, k, ports) ==
    IF k > Len(devs) THEN ports
    ELSE LET device == devs[k]
         IN checkDevices_for(devs, k + 1,
                IF ~isPluggedIn(get_port(device))
                THEN Append(ports, get_port(device)) ELSE ports)

checkDevices(devs) == checkDevices_for(devs, 1, <<>>)

\* ---------------------------------------------------- deviceType_to_string
\* Faulty variant: the serial case is missing and falls to the default.
deviceType_to_string_noSerial(type) ==
    CASE type = none -> "none"
      [] type = undefined -> "undefined"
      [] type = motor -> "motor"
      [] type = rotation -> "rotation"
      [] type = imu -> "imu"
      [] type = radio -> "radio"
      [] type = distance -> "distance"
      [] type = vision -> "vision"
      [] type = adi -> "adi"
      [] type = optical -> "optical"
      [] type = gps -> "gps"
      [] OTHER -> "unknown"

deviceType_to_string(type) ==
    CASE type = none -> "none"
      [] type = undefined -> "undefined"
      [] type = motor -> "motor"
      [] type = rotation -> "rotation"
      [] type = imu -> "imu"
      [] type = radio -> "radio"
      [] type = distance -> "distance"
      [] type = vision -> "vision"
      [] type = adi -> "adi"
      [] type = optical -> "optical"
      [] type = gps -> "gps"
      [] type = serial -> "serial"
      [] OTHER -> "unknown"

\* ------------------------------------------------- print_unplugged_devices
\* std::to_string(int)
to_string(n) == ToString(n)

\* `for (Device device : devices)`, from position k on, `output` so far
RECURSIVE print_unplugged_devices_for(_, _, _)
print_unplugged_devices_for(devs, k, output) ==
    IF k > Len(devs) THEN output
    ELSE LET device == devs[k]
         IN print_unplugged_devices_for(devs, k + 1,
                IF isPluggedIn(get_port(device))
                THEN output \o deviceType_to_string(get_plugged_type(get_port(device)))
                            \o ": " \o to_string(get_port(device)) \o ",\n"
                ELSE output)

\* What a caller can read through `output.c_str()` once the local std::string
\* `output` is destroyed: the characters still there, or whatever replaced them.
Garbage == "<freed>"
c_str_after_return(output) == {output, "", Garbage}

\* the texts print_unplugged_devices(devs) can hand to its caller
print_unplugged_devices(devs) ==
    c_str_after_return(print_unplugged_devices_for(devs, 1, ""))

\* ------------------------------------------------------------- environment
\* The host starts reporting type t for port p.
HostChange(p, t) ==
    /\ host[p] # t
    /\ host' = [host EXCEPT ![p] = t]
    /\ lost' = IF p \notin DOMAIN lost THEN lost
                ELSE [lost EXCEPT ![p] =
                        IF ~Absent(t) THEN "present"
                        ELSE IF lost[p] = "present" THEN "new" ELSE lost[p]]
    /\ UNCHANGED <<devices, pc, i, rumbles, prints, ret, slept, scanLog, call>>

\* ------------------------------------------------------ task_check_devices
\* Faulty variant: the `return 1` is missing, the loop goes on after the feedback.
CheckDevice_noReturn ==
    /\ pc = "scan"
    /\ i <= Len(devices)
    /\ LET device == devices[i]
           plugged == isPluggedIn(get_port(device))
       IN /\ scanLog' = Append(scanLog,
                               [port |-> get_port(device),
                                type |-> get_plugged_type(get_port(device)),
                                plugged |-> plugged])
          /\ IF ~plugged
             THEN /\ rumble("---")
                  /\ print(0, 0, "DEVICE UNPLUGGED!!!")
                  /\ i' = i + 1
                  /\ UNCHANGED <<pc, ret>>
             ELSE /\ i' = i + 1
                  /\ UNCHANGED <<pc, rumbles, prints, ret>>
    /\ UNCHANGED <<host, devices, slept, lost, call>>

\* Faulty variant: the fault is latched in a flag but the for loop is not left.
CheckDevice_keepsScanning ==
    /\ pc \in {"scan", "done"}
    /\ i <= Len(devices)
    /\ LET device == devices[i]
           plugged == isPluggedIn(get_port(device))
       IN /\ scanLog' = Append(scanLog,
                               [port |-> get_port(device),
                                type |-> get_plugged_type(get_port(device)),
                                plugged |-> plugged])
          /\ IF ~plugged /\ pc = "scan"
             THEN /\ rumble("---")
                  /\ print(0, 0, "DEVICE UNPLUGGED!!!")
                  /\ ret' = <<1>>
                  /\ pc' = "done"
                  /\ UNCHANGED i
             ELSE /\ i' = i + 1
                  /\ UNCHANGED <<pc, rumbles, prints, ret>>
    /\ UNCHANGED <<host, devices, slept, lost, call>>

\* One iteration of `for (Device &device : devices)`: the query and its branch.
CheckDevice ==
    /\ pc = "scan"
    /\ i <= Len(devices)
    /\ LET device == devices[i]
           plugged == isPluggedIn(get_port(device))
       IN /\ scanLog' = Append(scanLog,
                               [port |-> get_port(device),
                                type |-> get_plugged_type(get_port(device)),
                                plugged |-> plugged])
          /\ IF ~plugged
             THEN /\ rumble("---")
                  /\ print(0, 0, "DEVICE UNPLUGGED!!!")
                  /\ ret' = <<1>>
                  /\ pc' = "done"
                  /\ UNCHANGED i
             ELSE /\ i' = i + 1
                  /\ UNCHANGED <<pc, rumbles, prints, ret>>
    /\ UNCHANGED <<host, devices, slept, lost, call>>

\* Faulty variant: the pros::delay(500) is missing, the next scan starts at once.
EndScan_noDelay ==
    /\ pc = "scan"
    /\ i > Len(devices)
    /\ Len(devices) > 0
    /\ i' = 1
    /\ scanLog' = <<>>
    /\ lost' = AtScanStart(lost)
    /\ UNCHANGED <<host, devices, pc, rumbles, prints, ret, slept, call>>

\* The range-for is exhausted: pros::delay(500) is called and the task sleeps.
EndScan ==
    /\ pc = "scan"
    /\ i > Len(devices)
    /\ slept' = Append(slept, poll_interval)
    /\ pc' = "delay"
    /\ UNCHANGED <<host, devices, i, rumbles, prints, ret, scanLog, lost, call>>

\* pros::delay returns: `while (true)` starts the next scan.
Wake ==
    /\ pc = "delay"
    /\ pc' = "scan"
    /\ i' = 1
    /\ slept' = <<>>
    /\ scanLog' = <<>>
    /\ lost' = AtScanStart(lost)
    /\ UNCHANGED <<host, devices, rumbles, prints, ret, call>>

Supervisor == CheckDevice \/ EndScan \/ Wake

NoCall == [op |-> "none"]

\* The task has just been started on some WatchSet of at most n handles on
\* the ports P, with the host in any state.
Started(P, n) ==
    /\ host \in [P -> SupKinds]
    /\ devices \in {[k \in DOMAIN s |-> Device(s[k])] : s \in SeqsUpTo(P, n)}
    /\ pc = "scan"
    /\ i = 1
    /\ rumbles = <<>>
    /\ prints = <<>>
    /\ ret = <<>>
    /\ slept = <<>>
    /\ scanLog = <<>>
    /\ lost = [p \in {get_port(devices[k]) : k \in DOMAIN devices} |->
                 IF Absent(host[p]) THEN "initial" ELSE "present"]
    /\ call = NoCall

Init == Started(Ports, MaxLen)
InitLive == Started(LivePorts, LiveMaxLen)

Next ==
    \/ \E p \in DOMAIN host, t \in SupKinds : HostChange(p, t)
    \/ CheckDevice
    \/ EndScan
    \/ Wake

Spec == Init /\ [][Next]_vars

\* The scheduler runs the supervisor task whenever it can take a step.
FairSpec == InitLive /\ [][Next]_vars /\ WF_vars(Supervisor)

\* ------------------------------------------------------- one-shot callers
\* A caller (initialize(), opcontrol()) runs one of the one-shot functions on
\* a list it built and keeps the result until it drops it.
CallCheckMotorGroup(ports) ==
    /\ call = NoCall
    /\ call' = [op |-> "checkMotorGroup", arg |-> ports,
                result |-> checkMotorGroup(MotorGroup(ports))]
    /\ UNCHANGED <<host, devices, pc, i, rumbles, prints, ret, slept, scanLog, lost>>

CallCheckDevices(devs) ==
    /\ call = NoCall
    /\ call' = [op |-> "checkDevices", arg |-> devs, result |-> checkDevices(devs)]
    /\ UNCHANGED <<host, devices, pc, i, rumbles, prints, ret, slept, scanLog, lost>>

\* `output` is the std::string the function built, `result` what the caller
\* reads through the pointer it got.
CallPrintUnpluggedDevices(devs) ==
    /\ call = NoCall
    /\ \E text \in print_unplugged_devices(devs) :
          call' = [op |-> "print_unplugged_devices", arg |-> devs,
                   output |-> print_unplugged_devices_for(devs, 1, ""),
                   result |-> text]
    /\ UNCHANGED <<host, devices, pc, i, rumbles, prints, ret, slept, scanLog, lost>>

CallDeviceTypeToString(type) ==
    /\ call = NoCall
    /\ call' = [op |-> "deviceType_to_string", arg |-> type,
                result |-> deviceType_to_string(type)]
    /\ UNCHANGED <<host, devices, pc, i, rumbles, prints, ret, slept, scanLog, lost>>

\* The caller is done with the result.
Discard ==
    /\ call # NoCall
    /\ call' = NoCall
    /\ UNCHANGED <<host, devices, pc, i, rumbles, prints, ret, slept, scanLog, lost>>

PortLists == SeqsUpTo(FnPorts, FnMaxLen)
DeviceLists == {[k \in DOMAIN s |-> Device(s[k])] : s \in PortLists}

\* No supervisor task; the ports hold any of FnKinds.
InitFn ==
    /\ host \in [FnPorts -> FnKinds]
    /\ devices = <<>>
    /\ pc = "off"
    /\ i = 1
    /\ rumbles = <<>>
    /\ prints = <<>>
    /\ ret = <<>>
    /\ slept = <<>>
    /\ scanLog = <<>>
    /\ lost = <<>>
    /\ call = NoCall

NextFn ==
    \/ \E ports \in PortLists : CallCheckMotorGroup(ports)
    \/ \E devs \in DeviceLists : CallCheckDevices(devs)
    \/ \E devs \in DeviceLists : CallPrintUnpluggedDevices(devs)
    \/ \E type \in AnyType : CallDeviceTypeToString(type)
    \/ Discard

SpecFn == InitFn /\ [][NextFn]_vars

\* ====================================================== supervisor claims
Watched == {get_port(devices[k]) : k \in DOMAIN devices}
Feedback == <<rumbles, prints>>
NoFeedback == <<<<>>, <<>>>>
OneFeedback == << <<"---">>, << <<0, 0, "DEVICE UNPLUGGED!!!">> >> >>

\* The queries of the current scan follow the WatchSet, and an absent
\* reading, if any, is the last one of the scan and ends the task.
ScanInOrder ==
    /\ Len(scanLog) <= Len(devices)
    /\ \A k \in DOMAIN scanLog : scanLog[k].port = get_port(devices[k])
    /\ (pc = "done") <=> (\E k \in DOMAIN scanLog : ~scanLog[k].plugged)
    /\ pc = "done" =>
          /\ Len(scanLog) = i
          /\ ~scanLog[i].plugged
          /\ \A k \in 1..(i - 1) : scanLog[k].plugged

C2_ExactlyOneFeedback ==
    /\ pc = "done" => Feedback = OneFeedback
    /\ pc # "done" => Feedback = NoFeedback

\* tripped with at least two watched ports absent
C2_Witness ==
    /\ pc = "done"
    /\ Cardinality({p \in Watched : Absent(host[p])}) >= 2
    /\ Len(rumbles) = 1 /\ Len(prints) = 1

\* C3: while every watched device is present the supervisor stays Running
\* and silent, and every scan but the first starts right after exactly one
\* pros::delay(500) that followed the complete previous scan.
C3_RunsAndSleepsOncePerScan ==
    /\ [][(pc # "done" /\ \A p \in Watched : ~Absent(host[p]))
            => (pc' # "done" /\ Feedback' = NoFeedback /\ ret' = <<>>)]_vars
    /\ [][(pc' = "scan" /\ (pc # "scan" \/ i' < i))
            => (pc = "delay" /\ slept = <<poll_interval>>)]_vars
    /\ [][(pc = "scan" /\ i > Len(devices) /\ <<pc, i>>' # <<pc, i>>)
            => (pc' = "delay" /\ slept' = <<poll_interval>>)]_vars
    /\ [](pc = "delay" => (slept = <<poll_interval>> /\ i = Len(devices) + 1))
    /\ [](pc = "scan" => slept = <<>>)

\* asleep after a complete scan of two or more devices, all found present
C3_Witness ==
    /\ pc = "delay"
    /\ Len(devices) >= 2
    /\ Len(scanLog) = Len(devices)
    /\ \A k \in DOMAIN scanLog : scanLog[k].plugged
    /\ slept = <<poll_interval>>
    /\ Feedback = NoFeedback

\* No device that has been absent since before the current scan began has
\* been passed by the scan.
DetectedWithinOneScan ==
    pc \in {"scan", "delay"} =>
        \A k \in 1..(i - 1) : lost[get_port(devices[k])] \notin {"initial", "stale"}

C8_PresentIffNotNoneNorUndefined ==
    /\ \A p \in DOMAIN host : isPluggedIn(p) <=> host[p] \notin {none, undefined}
    /\ \A k \in DOMAIN scanLog :
          /\ scanLog[k].plugged <=> scanLog[k].type \notin {none, undefined}
          /\ scanLog[k].type \in {none, undefined} =>
                (pc = "done" /\ k = Len(scanLog) /\ Feedback = OneFeedback)

\* tripped on a reading of undefined
C8_Witness ==
    /\ pc = "done"
    /\ scanLog[Len(scanLog)].type = undefined
    /\ ~scanLog[Len(scanLog)].plugged

\* C10: Tripped is terminal: from then on no query, no sleep, no feedback
\* and no return to Running, whatever the host does; the handles after the
\* offending one were not queried in the tripping scan.
C10_TrippedIsTerminal ==
    /\ [][pc = "done" =>
            (pc' = "done" /\ UNCHANGED <<devices, i, rumbles, prints, ret, slept, scanLog>>)]_vars
    /\ [](pc = "done" => (Len(scanLog) = i /\ slept = <<>>))

\* tripped with handles left unqueried, and the offending device is back
C10_Witness ==
    /\ pc = "done"
    /\ i < Len(devices)
    /\ isPluggedIn(get_port(devices[i]))
    /\ \A p \in Watched : ~Absent(host[p])
    /\ Len(scanLog) = i
\* ======================================================== one-shot claims
PortsOf(devs) == [k \in DOMAIN devs |-> get_port(devs[k])]

\* C5: checkMotorGroup returns exactly the ports of the group whose device
\* is not a motor or is not present, in group order, one entry per
\* offending occurrence; a port holding a present motor is never returned.
C5_ReturnsExactlyOffendingPorts ==
    call.op = "checkMotorGroup" =>
        call.result = SelectSeq(call.arg,
                                LAMBDA p : host[p] # motor \/ host[p] \in {none, undefined})

\* the display names of section 6 of the specification
KindName ==
    [t \in DeviceType |->
        CASE t = none -> "none" [] t = undefined -> "undefined"
          [] t = motor -> "motor" [] t = rotation -> "rotation"
          [] t = imu -> "imu" [] t = radio -> "radio"
          [] t = distance -> "distance" [] t = vision -> "vision"
          [] t = adi -> "adi" [] t = optical -> "optical"
          [] t = gps -> "gps" [] t = serial -> "serial"]

\* one line "<kind-name>: <port>,\n" per handle, in order
RECURSIVE ReportLines(_)
ReportLines(devs) ==
    IF devs = <<>> THEN ""
    ELSE KindName[host[Head(devs).port]] \o ": " \o ToString(Head(devs).port) \o ",\n"
         \o ReportLines(Tail(devs))

\* C6: print_unplugged_devices produces one line "<kind-name>: <port>,\n"
\* for exactly the handles whose device is absent, in input order, and no
\* line for a handle whose device is present.  (Stated of the text the
\* function builds, before the pointer to it is handed out.)
C6_ReportsExactlyAbsentHandles ==
    call.op = "print_unplugged_devices" =>
        call.output = ReportLines(SelectSeq(call.arg,
                                            LAMBDA d : host[d.port] \in {none, undefined}))

\* C7: checkDevices returns exactly the ports of the handles whose type is
\* none or undefined, one entry per such handle, in input order; the call
\* changes neither the caller's list nor the host.
C7_ReturnsExactlyAbsentPorts ==
    /\ [](call.op = "checkDevices" =>
            call.result = PortsOf(SelectSeq(call.arg,
                                            LAMBDA d : host[d.port] \in {none, undefined})))
    /\ [][(call'.op = "checkDevices" /\ call' # call) =>
            (host' = host /\ call'.arg \in DeviceLists)]_vars

\* [3,1,2] with 3 none, 1 present, 2 undefined gives [3,2]
C7_Witness ==
    /\ call.op = "checkDevices"
    /\ PortsOf(call.arg) = <<3, 1, 2>>
    /\ host[3] = none /\ host[2] = undefined /\ host[1] = motor
    /\ call.result = <<3, 2>>

\* C9: deviceType_to_string maps each of the twelve DeviceType values to
\* its own lowercase name, the twelve names are pairwise distinct, and every
\* other value maps to "unknown".
C9_NamesAreTotalAndDistinct ==
    /\ call.op = "deviceType_to_string" =>
          call.result = IF call.arg \in DeviceType THEN KindName[call.arg] ELSE "unknown"
    /\ Cardinality(DeviceType) = 12
    /\ Cardinality({deviceType_to_string(t) : t \in DeviceType}) = 12

\* a value outside the enumeration was named "unknown"
C9_Witness ==
    /\ call.op = "deviceType_to_string"
    /\ call.arg = 99
    /\ call.arg \notin DeviceType
    /\ call.result = "unknown"

=============================================================================
